---------------------------- MODULE Spec2Model ----------------------------
(***************************************************************************)
(* msvc-wine: cmaketricks.cpp and cmdfileremap.cpp.                        *)
(*                                                                         *)
(* Both programs read a file into memory, split it into tokens, rewrite    *)
(* the absolute unix paths found in the tokens with wine's                 *)
(* wine_get_dos_file_name, and write the tokens back.  Text is modelled as *)
(* sequences of one-character strings; a C pointer into the file buffer is *)
(* a 1-based index, the terminator sitting at index Len(buffer) + 1.       *)
(***************************************************************************)
EXTENDS Integers, Sequences, FiniteSets, TLC

(***************************************************************************)
(* Characters                                                              *)
(***************************************************************************)
NUL == "NUL"                       \* the '\0' that ends every C string
QUOTE == "\""
SPACE == " "
TAB == "\t"
CR == "\r"
LF == "\n"

Letters ==
    { "a", "b", "c", "d", "e", "f", "g", "h", "i", "j", "k", "l", "m",
      "n", "o", "p", "q", "r", "s", "t", "u", "v", "w", "x", "y", "z",
      "A", "B", "C", "D", "E", "F", "G", "H", "I", "J", "K", "L", "M",
      "N", "O", "P", "Q", "R", "S", "T", "U", "V", "W", "X", "Y", "Z" }

\* `.' of an ECMAScript regular expression: anything but a line terminator.
Dot(c) == c \notin {CR, LF}

\* *(s + i - 1) of the C string s: past the text sits the terminator.
CharAt(s, i) == IF i >= 1 /\ i <= Len(s) THEN s[i] ELSE NUL

\* The least index from p on whose character is in stop (NUL included, so
\* one exists): where a `while ( *p is not in stop ) p += 1' loop ends.
ScanTo(s, p, stop) ==
    CHOOSE i \in p..(Len(s) + 1) :
        /\ CharAt(s, i) \in stop \cup {NUL}
        /\ \A j \in p..(i - 1) : CharAt(s, j) \notin stop \cup {NUL}

\* The least index from p on whose character is neither a space nor a tab.
SkipBlanks(s, p) ==
    CHOOSE i \in p..(Len(s) + 1) :
        /\ CharAt(s, i) \notin {SPACE, TAB}
        /\ \A j \in p..(i - 1) : CharAt(s, j) \in {SPACE, TAB}

\* s + k as a C string: the text from (0-based) offset k on.
From(s, k) == SubSeq(s, k + 1, Len(s))
\* The first k characters of s.
Upto(s, k) == SubSeq(s, 1, k)

(***************************************************************************)
(* Program constants                                                       *)
(***************************************************************************)
TOKEN_SIZE == 1024
NULLPTR == 0

INCLUDE == <<"#", "i", "n", "c", "l", "u", "d", "e">>

(***************************************************************************)
(* The four path patterns (std::regex_match: the whole token must match).  *)
(***************************************************************************)
\* "\\/.+\\/.+"
JUS_PATH(t) ==
    /\ Len(t) >= 4
    /\ t[1] = "/"
    /\ \A i \in 2..Len(t) : Dot(t[i])
    /\ \E j \in 3..(Len(t) - 1) : t[j] = "/"

\* "[-\\/][A-Za-z]\\/.*"
ONE_PATH(t) ==
    /\ Len(t) >= 3
    /\ t[1] \in {"-", "/"}
    /\ t[2] \in Letters
    /\ t[3] = "/"
    /\ \A i \in 4..Len(t) : Dot(t[i])

\* "[-\\/][A-Za-z]{2}\\/.*"
DUO_PATH(t) ==
    /\ Len(t) >= 4
    /\ t[1] \in {"-", "/"}
    /\ t[2] \in Letters
    /\ t[3] \in Letters
    /\ t[4] = "/"
    /\ \A i \in 5..Len(t) : Dot(t[i])

\* "[-\\/][A-Za-z]{3,}:\\/.*"
TRI_PATH(t) ==
    /\ Len(t) >= 6
    /\ t[1] \in {"-", "/"}
    /\ \E c \in 5..(Len(t) - 1) :
          /\ \A i \in 2..(c - 1) : t[i] \in Letters
          /\ t[c] = ":"
          /\ t[c + 1] = "/"
          /\ \A i \in (c + 2)..Len(t) : Dot(t[i])

\* strchr( tok, ':' ) - tok: the 0-based offset of the first colon.
StrchrColon(t) == CHOOSE c \in 0..(Len(t) - 1) :
                      /\ t[c + 1] = ":"
                      /\ \A j \in 1..c : t[j] # ":"

(***************************************************************************)
(* wine_get_dos_file_name: the unix path as a DOS path under drive Z:,     *)
(* every slash turned into a backslash.  Whether it fails is up to wine.   *)
(***************************************************************************)
Translate(p) ==
    <<"Z", ":">> \o [i \in 1..Len(p) |-> IF p[i] = "/" THEN "\\" ELSE p[i]]

(***************************************************************************)
(* token() of cmaketricks.cpp.  The result: ret, the returned pointer      *)
(* (NULLPTR at the end of the buffer); tok, the token buffer's text after  *)
(* the call; ok, FALSE when the assertion on the size fails.               *)
(***************************************************************************)
offset == 0

token(pBuffer, p, pToken, pTokenLen) ==
    LET q == SkipBlanks(pBuffer, p)
        c == CharAt(pBuffer, q)
        quoted == c = QUOTE
        start == IF quoted THEN q + 1 ELSE q
        end == IF quoted
               THEN ScanTo(pBuffer, start, {QUOTE})
               ELSE ScanTo(pBuffer, start, {SPACE, TAB, CR, LF})
        size == end - start
    IN  IF c \in {CR, LF}
        THEN [ret |-> q + 1, tok |-> <<c>>, ok |-> TRUE]
        ELSE IF c = NUL
        THEN [ret |-> NULLPTR, tok |-> pToken, ok |-> TRUE]
        ELSE IF ~(size < pTokenLen - 1)
        THEN [ret |-> NULLPTR, tok |-> pToken, ok |-> FALSE]
        ELSE [ret |-> end + offset,
              tok |-> SubSeq(pBuffer, start, end - 1),
              ok |-> TRUE]

(***************************************************************************)
(* State                                                                   *)
(***************************************************************************)
VARIABLES
    status,     \* "run", or how the process ended: "exit0".."exit4", "abort", "crash"
    mainpc,     \* where main() is: "start", "loop", "done"; "none": remapFile called alone
    argv,       \* the argument vector, argv[1] being C's argv[0]
    argi,       \* main's loop variable i (a C index)
    mode,       \* main's local `mode'
    g_Quiet,
    g_Debug,
    disk,       \* the file system: file name |-> contents
    stack,      \* the active remapFile calls, innermost last
    oob,        \* bytes written past the end of a token buffer so far
    trace,      \* what the run did so far, in order
    alt         \* a run of cmdfileremap's remapFile on the same input

vars == <<status, mainpc, argv, argi, mode, g_Quiet, g_Debug, disk, stack, oob, trace, alt>>

PCH == "PCH"
CMD == "CMD"

top == stack[Len(stack)]
depth == Len(stack)
SetTop(f) == [stack EXCEPT ![Len(stack)] = f]

Event(ev, f, text, at, ret) ==
    [ev |-> ev, depth |-> depth, mode |-> f.mode, text |-> text, at |-> at, ret |-> ret]

\* A frame of remapFile( pFile, pMode ) at its first statement.  at, raw and
\* before record the past: the pointer given to the last token() call, the
\* token it produced, and what the destination held before it was opened.
Call(pFile, pMode) ==
    [file |-> pFile, mode |-> pMode, pc |-> "open", buffer |-> <<>>, dest |-> <<>>,
     ptr |-> 1, tok |-> <<>>, term |-> TRUE, out |-> <<>>,
     k |-> 0, cls |-> "NONE", at |-> 0, raw |-> <<>>, before |-> <<>>]

\* A stream writes its buffered bytes at its own file position, which starts
\* at 0: the bytes replace the start of what the file holds.
WriteOut(d, f) ==
    [d EXCEPT ![f.dest] = f.out \o SubSeq(@, Len(f.out) + 1, Len(@))]

\* exit() flushes every stream still open for writing, outermost call first.
RECURSIVE FlushAll(_, _, _)
FlushAll(d, stk, i) ==
    IF i > Len(stk) THEN d
    ELSE FlushAll(IF stk[i].pc = "open" THEN d ELSE WriteOut(d, stk[i]), stk, i + 1)

Exit(code) ==
    /\ status' = code
    /\ disk' = FlushAll(disk, stack, 1)

(***************************************************************************)
(* remapFile of cmaketricks.cpp                                            *)
(***************************************************************************)
\* Classify with the bare-path test moved to the front of the chain.
ClassifyBareFirst(t) ==
    IF JUS_PATH(t) THEN [cls |-> "JUS", k |-> 0]
    ELSE IF ONE_PATH(t) THEN [cls |-> "ONE", k |-> 2]
    ELSE IF DUO_PATH(t) THEN [cls |-> "DUO", k |-> 3]
    ELSE IF TRI_PATH(t) THEN [cls |-> "TRI", k |-> StrchrColon(t) + 1]
    ELSE [cls |-> "NONE", k |-> 0]

\* The if-chain of the command-file mode: which pattern a token is taken
\* for, and the offset of the path handed to remap().
Classify(t) ==
    IF ONE_PATH(t) THEN [cls |-> "ONE", k |-> 2]
    ELSE IF DUO_PATH(t) THEN [cls |-> "DUO", k |-> 3]
    ELSE IF TRI_PATH(t) THEN [cls |-> "TRI", k |-> StrchrColon(t) + 1]
    ELSE IF JUS_PATH(t) THEN [cls |-> "JUS", k |-> 0]
    ELSE [cls |-> "NONE", k |-> 0]

\* ForcedInclude without the test of the second letter.
ForcedIncludeAnyF(t) == CharAt(t, 2) = "F"

\* tok[1] == 'F' && (tok[2] == 'I' || tok[2] == 'i')
ForcedInclude(t) == CharAt(t, 2) = "F" /\ CharAt(t, 3) \in {"I", "i"}

\* The destination: the file itself, or a sibling `.out' under --debug.
Dest(pFile) == IF g_Debug THEN pFile \o <<".", "o", "u", "t">> ELSE pFile

\* Lines 89-123: read the whole file, then open the destination for writing,
\* which creates it or cuts it to length zero.
Open ==
    /\ status = "run" /\ depth > 0 /\ top.pc = "open"
    /\ UNCHANGED <<alt, mainpc, argv, argi, mode, g_Quiet, g_Debug, oob, trace>>
    /\ IF top.file \notin DOMAIN disk
       THEN Exit("exit3") /\ UNCHANGED stack
       ELSE \E writable \in BOOLEAN :
              IF ~writable
              THEN Exit("exit3") /\ UNCHANGED stack
              ELSE /\ disk' = (Dest(top.file) :> <<>>) @@ disk
                   /\ stack' = SetTop([top EXCEPT !.buffer = disk[top.file],
                                                  !.dest = Dest(top.file),
                                                  !.before = IF Dest(top.file) \in DOMAIN disk
                                                             THEN disk[Dest(top.file)]
                                                             ELSE <<"absent">>,
                                                  !.ptr = 1,
                                                  !.pc = "loop"])
                   /\ UNCHANGED status

\* fprintf / fputs / fputc on the destination stream.
Put(f, text) == [f EXCEPT !.out = @ \o text]

Quoted(t) == <<QUOTE>> \o t \o <<QUOTE>>

\* Lines 124-166 up to the call of remap(): one token() call of the loop
\* condition and what the body does with the token.
NextToken ==
    /\ status = "run" /\ depth > 0 /\ top.pc = "loop" /\ top.ptr # NULLPTR
    /\ UNCHANGED <<alt, mainpc, argv, argi, mode, g_Quiet, g_Debug, disk, oob>>
    /\ LET r == token(top.buffer, top.ptr, top.tok, TOKEN_SIZE)
           f == [top EXCEPT !.ptr = r.ret, !.tok = r.tok, !.term = TRUE,
                            !.at = top.ptr, !.raw = r.tok]
           seen == Event("token", top, r.tok, top.ptr, r.ret)
       IN  IF ~r.ok
           THEN /\ status' = "abort"
                /\ UNCHANGED <<stack, trace>>
           ELSE IF r.ret = NULLPTR
           THEN /\ stack' = SetTop([top EXCEPT !.ptr = NULLPTR, !.at = top.ptr, !.pc = "flush"])
                /\ trace' = Append(trace, Event("end", top, <<>>, top.ptr, NULLPTR))
                /\ UNCHANGED status
           ELSE IF CharAt(r.tok, 1) = SPACE
           THEN /\ stack' = SetTop(f)
                /\ trace' = Append(trace, seen)
                /\ UNCHANGED status
           ELSE IF CharAt(r.tok, 1) \in {CR, LF}
           THEN /\ stack' = SetTop(Put(f, <<r.tok[1]>>))
                /\ trace' = trace \o <<seen, Event("emit", top, <<r.tok[1]>>, 0, 0)>>
                /\ UNCHANGED status
           ELSE IF top.mode = CMD
           THEN LET c == Classify(r.tok)
                IN  IF c.cls = "NONE"
                    THEN /\ stack' = SetTop(Put(f, Quoted(r.tok) \o <<SPACE>>))
                         /\ trace' = trace \o <<seen,
                                Event("emit", top, Quoted(r.tok) \o <<SPACE>>, 0, 0)>>
                         /\ UNCHANGED status
                    ELSE /\ stack' = SetTop([f EXCEPT !.pc = "remap", !.cls = c.cls, !.k = c.k])
                         /\ trace' = Append(trace, seen)
                         /\ UNCHANGED status
           ELSE IF r.tok = INCLUDE
           THEN /\ stack' = SetTop([Put(f, r.tok) EXCEPT !.pc = "include"])
                /\ trace' = trace \o <<seen, Event("emit", top, r.tok, 0, 0)>>
                /\ UNCHANGED status
           ELSE /\ stack' = SetTop(Put(f, r.tok \o <<SPACE>>))
                /\ trace' = trace \o <<seen, Event("emit", top, r.tok \o <<SPACE>>, 0, 0)>>
                /\ UNCHANGED status

\* Line 124 once line 159 has stored a null pointer in ptr: token() reads
\* through it.  The read traps, or it yields a zero byte and token() returns
\* null in its turn.
NullToken ==
    /\ status = "run" /\ depth > 0 /\ top.pc = "loop" /\ top.ptr = NULLPTR
    /\ UNCHANGED <<alt, mainpc, argv, argi, mode, g_Quiet, g_Debug, disk, oob>>
    /\ trace' = Append(trace, Event("nullcall", top, <<>>, NULLPTR, NULLPTR))
    /\ \E traps \in BOOLEAN :
          IF traps
          THEN status' = "crash" /\ UNCHANGED stack
          ELSE stack' = SetTop([top EXCEPT !.pc = "flush"]) /\ UNCHANGED status

\* Line 159: the token after `#include' is fetched whatever it is, and the
\* result is not tested.
IncludeTarget ==
    /\ status = "run" /\ depth > 0 /\ top.pc = "include"
    /\ UNCHANGED <<alt, mainpc, argv, argi, mode, g_Quiet, g_Debug, disk, oob>>
    /\ LET r == token(top.buffer, top.ptr, top.tok, TOKEN_SIZE)
       IN  IF ~r.ok
           THEN /\ status' = "abort"
                /\ UNCHANGED <<stack, trace>>
           ELSE /\ stack' = SetTop([top EXCEPT !.ptr = r.ret, !.tok = r.tok, !.term = TRUE,
                                               !.at = top.ptr, !.raw = r.tok,
                                               !.pc = "remap", !.cls = "INC", !.k = 0])
                /\ trace' = Append(trace,
                       IF r.ret = NULLPTR
                       THEN Event("end", top, <<>>, top.ptr, NULLPTR)
                       ELSE Event("token", top, r.tok, top.ptr, r.ret))
                /\ UNCHANGED status

\* WideCharToMultiByte( CP_UNIXCP, 0, winPath, -1, pPath, pLen, ... ): how many
\* bytes it stores at pPath.  The translated text and its terminator when
\* pLen bytes hold them; otherwise the call fails having filled the pLen
\* bytes it was told it has, with no terminator.
BytesStored(w, pLen) == IF Len(w) + 1 <= pLen THEN Len(w) + 1 ELSE pLen

\* remap( tok + k, pLen ): the token buffer's text afterwards.
Remapped(t, k, w, pLen) ==
    Upto(t, k) \o (IF Len(w) + 1 <= pLen THEN w ELSE Upto(w, pLen))

\* How many of the bytes stored at tok + k lie past the TOKEN_SIZE bytes of
\* the token buffer.
Overrun(k, stored) == IF k + stored > TOKEN_SIZE THEN k + stored - TOKEN_SIZE ELSE 0

\* Lines 175-185 as called from lines 136, 139, 147, 150 and 160, each of
\* which passes TOKEN_SIZE as the room left at tok + k.
Remap ==
    /\ status = "run" /\ depth > 0 /\ top.pc = "remap"
    /\ UNCHANGED <<alt, mainpc, argv, argi, mode, g_Quiet, g_Debug>>
    /\ LET pPath == From(top.tok, top.k)
           pLen == TOKEN_SIZE
           winPath == Translate(pPath)
           stored == BytesStored(winPath, pLen)
           over == Overrun(top.k, stored)
       IN  /\ trace' = Append(trace, Event("translate", top, pPath, top.k, 0))
           /\ \E translated \in BOOLEAN :
                IF ~translated
                THEN Exit("exit4") /\ UNCHANGED <<stack, oob>>
                ELSE /\ oob' = oob + over
                     /\ stack' = SetTop([top EXCEPT
                                           !.tok = Remapped(top.tok, top.k, winPath, pLen),
                                           !.term = (Len(winPath) + 1 <= pLen),
                                           !.pc = "emit"])
                     \* bytes stored past the buffer land in the heap
                     \* behind it: the run goes on, or dies of it
                     /\ status' \in (IF over > 0 THEN {"run", "crash"} ELSE {"run"})
                     /\ UNCHANGED disk

\* The fprintf after remap() (lines 137, 140, 148, 151, 161) and the test of
\* line 142.  A token buffer left without a terminator is read past its end:
\* the read traps, or it stops at a zero byte right behind the buffer.
Emit ==
    /\ status = "run" /\ depth > 0 /\ top.pc = "emit"
    /\ UNCHANGED <<alt, mainpc, argv, argi, mode, g_Quiet, g_Debug, disk, oob>>
    /\ \E traps \in {FALSE, ~top.term} :
          IF traps
          THEN status' = "crash" /\ UNCHANGED <<stack, trace>>
          ELSE LET text == IF top.cls = "INC"
                           THEN <<SPACE>> \o Quoted(top.tok)
                           ELSE Quoted(top.tok) \o <<SPACE>>
                   next == IF top.cls = "DUO" /\ ForcedInclude(top.tok)
                           THEN "nested" ELSE "loop"
               IN  /\ stack' = SetTop([Put(top, text) EXCEPT !.pc = next])
                   /\ trace' = Append(trace, Event("emit", top, text, 0, 0))
                   /\ UNCHANGED status

\* Line 143: remapFile( tok + 3, Mode::PCH ).
Nested ==
    /\ status = "run" /\ depth > 0 /\ top.pc = "nested"
    /\ UNCHANGED <<alt, status, mainpc, argv, argi, mode, g_Quiet, g_Debug, disk, oob>>
    /\ stack' = Append(SetTop([top EXCEPT !.pc = "loop"]), Call(From(top.tok, 3), PCH))
    /\ trace' = Append(trace, [Event("call", top, From(top.tok, 3), 0, 0) EXCEPT !.mode = PCH])

\* Lines 170-173: flush, close, return to the caller.
Flush ==
    /\ status = "run" /\ depth > 0 /\ top.pc = "flush"
    /\ UNCHANGED <<alt, status, mainpc, argv, argi, mode, g_Quiet, g_Debug, oob>>
    /\ disk' = WriteOut(disk, top)
    /\ stack' = Upto(stack, depth - 1)
    /\ trace' = Append(trace, Event("return", top, top.file, 0, 0))

(***************************************************************************)
(* main of cmaketricks.cpp                                                 *)
(***************************************************************************)
\* The string literals main passes to hasArgument, in the order of the code.
Options == << <<"-", "-", "h", "e", "l", "p">>, <<"-", "h">>,
              <<"-", "-", "q", "u", "i", "e", "t">>, <<"-", "q">>,
              <<"-", "-", "d", "e", "b", "u", "g">>,
              <<"-", "-", "p", "c", "h">> >>
OPT_HELP == Options[1]
OPT_H == Options[2]
OPT_QUIET == Options[3]
OPT_Q == Options[4]
OPT_DEBUG == Options[5]
OPT_PCH == Options[6]

\* The value of the char* argv[i - 1], and that of a string literal: the
\* arguments live in the block the process was started with, the literals in
\* the program's read-only data.
ArgPtr(i) == [seg |-> "argv", at |-> i]
LiteralPtr(text) == [seg |-> "rodata", at |-> CHOOSE j \in 1..Len(Options) : Options[j] = text]

\* std::find( argv, argv+argc, pOption ) != argv+argc: std::find compares the
\* elements, which are char*, with pOption by ==.
hasArgument(pOption) == \E i \in 1..Len(argv) : ArgPtr(i) = LiteralPtr(pOption)

\* Lines 47-74.
MainStart ==
    /\ status = "run" /\ mainpc = "start"
    /\ UNCHANGED <<argv, disk, stack, oob, trace, alt>>
    /\ IF Len(argv) = 1
       THEN /\ status' = "exit1"
            /\ UNCHANGED <<mainpc, argi, mode, g_Quiet, g_Debug>>
       ELSE IF hasArgument(OPT_HELP) \/ hasArgument(OPT_H)
       THEN /\ status' = "exit0"
            /\ mainpc' = "done"
            /\ UNCHANGED <<argi, mode, g_Quiet, g_Debug>>
       ELSE /\ g_Quiet' = (g_Quiet \/ hasArgument(OPT_QUIET) \/ hasArgument(OPT_Q))
            /\ g_Debug' = (g_Debug \/ hasArgument(OPT_DEBUG))
            /\ mode' = IF hasArgument(OPT_PCH) THEN PCH ELSE CMD
            /\ argi' = 1
            /\ \E bound \in BOOLEAN :      \* GetProcAddress found the wine function
                  IF bound
                  THEN mainpc' = "loop" /\ UNCHANGED status
                  ELSE status' = "exit2" /\ UNCHANGED mainpc

\* Lines 77-85: one turn of the loop over the arguments, up to the call of
\* remapFile, or the return once the arguments are used up.
MainLoop ==
    /\ status = "run" /\ mainpc = "loop" /\ depth = 0
    /\ UNCHANGED <<argv, mode, g_Quiet, g_Debug, disk, oob, alt>>
    /\ IF argi < Len(argv)
       THEN IF CharAt(argv[argi + 1], 1) = "-"
            THEN /\ argi' = argi + 1
                 /\ UNCHANGED <<status, mainpc, stack, trace>>
            ELSE /\ stack' = <<Call(argv[argi + 1], mode)>>
                 /\ mainpc' = "call"
                 /\ trace' = Append(trace, [ev |-> "call", depth |-> 0, mode |-> mode,
                                            text |-> argv[argi + 1], at |-> argi, ret |-> 0])
                 /\ UNCHANGED <<status, argi>>
       ELSE /\ status' = "exit0"
            /\ mainpc' = "done"
            /\ UNCHANGED <<argi, stack, trace>>

\* remapFile has returned to line 82: i += 1.
MainReturn ==
    /\ status = "run" /\ mainpc = "call" /\ depth = 0
    /\ argi' = argi + 1
    /\ mainpc' = "loop"
    /\ UNCHANGED <<status, argv, mode, g_Quiet, g_Debug, disk, stack, oob, trace, alt>>

(***************************************************************************)
(* Inputs                                                                  *)
(***************************************************************************)
RECURSIVE Flatten(_)
Flatten(ss) == IF ss = <<>> THEN <<>> ELSE ss[1] \o Flatten(SubSeq(ss, 2, Len(ss)))

\* Every text made of at most n of the given pieces.
Texts(pieces, n) == { Flatten(ss) : ss \in UNION { [1..m -> pieces] : m \in 0..n } }

NoAlt == [pc |-> "off"]

\* remapFile( pFile, pMode ) called on a file system d.
Called(pFile, pMode, d) ==
    /\ status = "run"
    /\ mainpc = "none"
    /\ argv = <<>>
    /\ argi = 0
    /\ mode = pMode
    /\ g_Quiet = FALSE
    /\ g_Debug = FALSE
    /\ disk = d
    /\ stack = <<Call(pFile, pMode)>>
    /\ oob = 0
    /\ trace = <<>>
    /\ alt = NoAlt

\* Files of a handful of lexemes each, in either mode.
MaxPieces == 5
FilePieces == { INCLUDE, <<SPACE>>, <<LF>>, <<QUOTE, "a", QUOTE>>, <<QUOTE>>, <<"b">>,
                <<"/", "a", "/", "b">> }
FILE_F == <<"f">>

InitFile ==
    \E b \in Texts(FilePieces, MaxPieces), m \in {CMD, PCH} :
        Called(FILE_F, m, FILE_F :> b)

NextFile == Open \/ NextToken \/ NullToken \/ IncludeTarget \/ Remap \/ Emit \/ Flush

SpecFile == InitFile /\ [][NextFile]_vars

(***************************************************************************)
(* Claims about one file (SpecFile)                                        *)
(***************************************************************************)
Frames == { stack[i] : i \in 1..Len(stack) }

\* Where the closing quote of the quoted token opening at q is, 0 if none.
ClosingQuote(b, q) ==
    IF CharAt(b, q) = QUOTE /\ CharAt(b, ScanTo(b, q + 1, {QUOTE})) = QUOTE
    THEN ScanTo(b, q + 1, {QUOTE}) ELSE 0

\* C1: whenever token() is called with the cursor at a double quote (blanks
\* skipped) that has a closing double quote later in the buffer, the token is
\* the text strictly between the two quotes and the returned cursor is the
\* position after the closing quote; so no quote both closes one token and
\* opens the next.
C1_QuotedTokenCursor ==
    /\ \A f \in Frames :
          f.at > 0 /\ ClosingQuote(f.buffer, SkipBlanks(f.buffer, f.at)) > 0 =>
              LET q == SkipBlanks(f.buffer, f.at)
                  c == ClosingQuote(f.buffer, q)
              IN  /\ f.raw = SubSeq(f.buffer, q + 1, c - 1)
                  /\ f.ptr = c + 1
    /\ \A i \in 1..Len(trace), j \in 1..Len(trace) :
          /\ depth > 0 /\ i < j
          /\ trace[i].ev = "token" /\ trace[j].ev = "token"
          /\ trace[i].depth = depth /\ trace[j].depth = depth
          /\ ClosingQuote(top.buffer, SkipBlanks(top.buffer, trace[i].at)) > 0
          => SkipBlanks(top.buffer, trace[j].at)
                 # ClosingQuote(top.buffer, SkipBlanks(top.buffer, trace[i].at))

\* The tokenizer the claims describe: as token(), the cursor moving past the
\* closing quote of a quoted token.
RECURSIVE SpecTokens(_, _)
SpecTokens(b, p) ==
    LET q == SkipBlanks(b, p)
        c == CharAt(b, q)
        e == IF c = QUOTE THEN ScanTo(b, q + 1, {QUOTE})
             ELSE ScanTo(b, q, {SPACE, TAB, CR, LF})
    IN  IF c = NUL THEN <<>>
        ELSE IF c \in {CR, LF} THEN <<<<c>>>> \o SpecTokens(b, q + 1)
        ELSE IF c = QUOTE
        THEN <<SubSeq(b, q + 1, e - 1)>> \o
             SpecTokens(b, IF CharAt(b, e) = QUOTE THEN e + 1 ELSE e)
        ELSE <<SubSeq(b, q, e - 1)>> \o SpecTokens(b, e)

\* Every `#include' of the token sequence has a token after it to pair with.
RECURSIVE AllPaired(_)
AllPaired(ts) ==
    IF ts = <<>> THEN TRUE
    ELSE IF ts[1] = INCLUDE THEN Len(ts) >= 2 /\ AllPaired(SubSeq(ts, 3, Len(ts)))
    ELSE AllPaired(SubSeq(ts, 2, Len(ts)))

\* What the precompiled-header mode is to write for a token sequence.
RECURSIVE ExpectedPch(_)
ExpectedPch(ts) ==
    IF ts = <<>> THEN <<>>
    ELSE IF ts[1] \in {<<CR>>, <<LF>>} THEN ts[1] \o ExpectedPch(SubSeq(ts, 2, Len(ts)))
    ELSE IF ts[1] = INCLUDE /\ Len(ts) >= 2
    THEN INCLUDE \o <<SPACE>> \o Quoted(Translate(ts[2])) \o ExpectedPch(SubSeq(ts, 3, Len(ts)))
    ELSE ts[1] \o <<SPACE>> \o ExpectedPch(SubSeq(ts, 2, Len(ts)))

\* The token sequence from its first `#include' on (empty if it has none).
RECURSIVE FromFirstInclude(_)
FromFirstInclude(ts) ==
    IF ts = <<>> \/ ts[1] = INCLUDE THEN ts ELSE FromFirstInclude(SubSeq(ts, 2, Len(ts)))

IsSuffix(s, t) == Len(s) <= Len(t) /\ SubSeq(t, Len(t) - Len(s) + 1, Len(t)) = s

\* The tokens the run at call depth d has been given by token() so far.
RunTokens(d) ==
    LET evs == SelectSeq(trace, LAMBDA e : e.ev = "token" /\ e.depth = d)
    IN  [i \in 1..Len(evs) |-> evs[i].text]

\* C2: in precompiled-header mode every `#include' followed by a target T is
\* written as `#include', one space and the quoted translation of T with no
\* space after it, and no token after T is dropped: when the run has reached
\* the first `#include' of the buffer and then consumed the buffer, the
\* output ends with what the buffer's tokens from that `#include' on call
\* for, later directives included.
C2_IncludePairing ==
    \A d \in 1..Len(stack) :
        LET f == stack[d]
            S == SpecTokens(f.buffer, 1)
            n == Len(S) - Len(FromFirstInclude(S)) + 1
        IN  /\ f.mode = PCH /\ f.pc = "flush"
            /\ AllPaired(S)
            /\ n <= Len(S)
            /\ Len(RunTokens(d)) >= n /\ Upto(RunTokens(d), n) = Upto(S, n)
            => IsSuffix(ExpectedPch(FromFirstInclude(S)), f.out)

\* C3: in command-file mode every token that is not a lone CR or LF is
\* written once, as a quote, its first k characters, the translation of the
\* rest, a quote and a space; a token no pattern matches is not translated
\* and is written unchanged between quotes, followed by a space.
C3_CommandTokenEmitted ==
    \A i \in 1..Len(trace) :
        LET e == trace[i]
            c == Classify(e.text)
        IN  /\ status = "run"
            /\ e.ev = "token" /\ e.mode = CMD
            /\ e.text \notin {<<CR>>, <<LF>>}
            /\ i < Len(trace)
            => IF c.cls = "NONE"
               THEN /\ trace[i + 1].ev = "emit"
                    /\ trace[i + 1].text = Quoted(e.text) \o <<SPACE>>
               ELSE /\ trace[i + 1].ev = "translate"
                    /\ trace[i + 1].text = From(e.text, c.k)
                    /\ i + 1 < Len(trace) =>
                          /\ trace[i + 2].ev = "emit"
                          /\ trace[i + 2].text =
                                Quoted(Upto(e.text, c.k) \o Translate(From(e.text, c.k)))
                                    \o <<SPACE>>

\* C6: while a run has not consumed its token stream to the end, the
\* destination still holds what it held before the run; so it does when the
\* process exits with status 4.
C6_NeverPartiallyWrites ==
    \A f \in Frames :
        f.pc \in {"loop", "include", "remap", "emit", "nested"}
        => f.dest \in DOMAIN disk /\ disk[f.dest] = f.before

\* C7: a token() call that does not signal the end returns a cursor greater
\* than the one it was given, and once token() has signalled the end, to the
\* loop or to the extra call for an `#include' target, the run goes straight
\* to flush-and-close: no token() call, translation or output follows.
C7_EndIsFinal ==
    status = "run" =>
        \A i \in 1..Len(trace) :
            /\ trace[i].ev = "token" => trace[i].ret > trace[i].at
            /\ trace[i].ev = "end" /\ i < Len(trace) => trace[i + 1].ev = "return"

(***************************************************************************)
(* Classification (SpecClassify): a command file holding one bare token,   *)
(* every text over the alphabet up to the length bound.                    *)
(***************************************************************************)
MaxTokenLen == 6
ClassifyAlphabet == {"-", "/", ":", "a", "I"}

InitClassify ==
    \E t \in UNION { [1..n -> ClassifyAlphabet] : n \in 0..MaxTokenLen } :
        Called(FILE_F, CMD, FILE_F :> t)

NextClassify == Open \/ NextToken \/ Remap \/ Emit \/ Flush

SpecClassify == InitClassify /\ [][NextClassify]_vars

\* A regular expression as a sequence of items: a character set, or `.',
\* repeated between lo and hi times (hi = -1: no upper limit).
Item(set, lo, hi) == [set |-> set, dot |-> FALSE, lo |-> lo, hi |-> hi]
Dots(lo, hi) == [set |-> {}, dot |-> TRUE, lo |-> lo, hi |-> hi]
Accepts(item, c) == IF item.dot THEN c \notin {CR, LF} ELSE c \in item.set

\* Whether the items from the i-th on match the text from position j to its end.
RECURSIVE Matches(_, _, _, _)
Matches(re, i, t, j) ==
    IF i > Len(re) THEN j = Len(t) + 1
    ELSE \E n \in re[i].lo..(Len(t) + 1 - j) :
            /\ re[i].hi = -1 \/ n <= re[i].hi
            /\ \A m \in j..(j + n - 1) : Accepts(re[i], t[m])
            /\ Matches(re, i + 1, t, j + n)

DashOrSlash == {"-", "/"}
\* [-/] letter / rest
SINGLE_PREFIX_PATH == <<Item(DashOrSlash, 1, 1), Item(Letters, 1, 1), Item({"/"}, 1, 1),
                        Dots(0, -1)>>
\* [-/] letter letter / rest
DOUBLE_PREFIX_PATH == <<Item(DashOrSlash, 1, 1), Item(Letters, 2, 2), Item({"/"}, 1, 1),
                        Dots(0, -1)>>
\* [-/] three or more letters : / rest
COLON_PREFIX_PATH == <<Item(DashOrSlash, 1, 1), Item(Letters, 3, -1), Item({":"}, 1, 1),
                       Item({"/"}, 1, 1), Dots(0, -1)>>
\* / segment / segment
BARE_PATH == <<Item({"/"}, 1, 1), Dots(1, -1), Item({"/"}, 1, 1), Dots(1, -1)>>

\* The 1-based index of the first colon: the 0-based offset right after it.
AfterFirstColon(t) ==
    CHOOSE i \in 1..Len(t) : t[i] = ":" /\ \A j \in 1..(i - 1) : t[j] # ":"

\* The offset the path of a token starts at by the precedence order, -1 for a
\* token none of the four patterns matches.
PathOffset(t) ==
    IF Matches(SINGLE_PREFIX_PATH, 1, t, 1) THEN 2
    ELSE IF Matches(DOUBLE_PREFIX_PATH, 1, t, 1) THEN 3
    ELSE IF Matches(COLON_PREFIX_PATH, 1, t, 1) THEN AfterFirstColon(t)
    ELSE IF Matches(BARE_PATH, 1, t, 1) THEN 0
    ELSE -1

\* C4: in command-file mode the class applied to a token is the first of
\* SINGLE_PREFIX_PATH, DOUBLE_PREFIX_PATH, COLON_PREFIX_PATH, BARE_PATH whose
\* pattern matches the whole token, and the text handed to the translation
\* starts at offset 2, 3, right after the first colon, and 0 respectively; a
\* token no pattern matches is not translated.
C4_ClassPrecedence ==
    \A i \in 1..Len(trace) :
        trace[i].ev = "token" /\ trace[i].mode = CMD /\ i < Len(trace) =>
            LET t == trace[i].text
                k == PathOffset(t)
            IN  IF k = -1
                THEN trace[i + 1].ev # "translate"
                ELSE /\ trace[i + 1].ev = "translate"
                     /\ trace[i + 1].at = k
                     /\ trace[i + 1].text = From(t, k)

\* A token both the single-prefix and the bare pattern match has been handed
\* to the translation from offset 2.
C4_Witness ==
    \E i \in 2..Len(trace) :
        /\ trace[i].ev = "translate" /\ trace[i].at = 2
        /\ trace[i - 1].ev = "token"
        /\ Matches(SINGLE_PREFIX_PATH, 1, trace[i - 1].text, 1)
        /\ Matches(BARE_PATH, 1, trace[i - 1].text, 1)
        /\ trace[i].text = From(trace[i - 1].text, 2)

(***************************************************************************)
(* Forced includes (SpecNested): a command file naming the header /h, which *)
(* wine maps to Z:\h, in forced-include and other options.                 *)
(***************************************************************************)
MaxNestedPieces == 3
NestedPieces == { <<"/", "F", "I", "/", "h">>, <<"-", "F", "i", "/", "h">>,
                  <<"-", "F", "o", "/", "h">>, <<SPACE>>, <<"a">>,
                  <<QUOTE, "/", "F", "I", "/", "h", LF, QUOTE>> }
HEADER_H == <<"Z", ":", "\\", "h">>
HeaderTexts == { <<>>, <<"a">>, INCLUDE \o <<SPACE, "a">>, INCLUDE }

InitNested ==
    \E b \in Texts(NestedPieces, MaxNestedPieces) :
        \/ \E h \in HeaderTexts : Called(FILE_F, CMD, (FILE_F :> b) @@ (HEADER_H :> h))
        \/ Called(FILE_F, CMD, FILE_F :> b)

NextNested ==
    Open \/ NextToken \/ NullToken \/ IncludeTarget \/ Remap \/ Emit \/ Nested \/ Flush

SpecNested == InitNested /\ [][NextNested]_vars

\* [-/] F (I|i) / rest, whatever the rest holds.
ForcedForm(t) ==
    /\ Len(t) >= 4
    /\ t[1] \in {"-", "/"} /\ t[2] = "F" /\ t[3] \in {"I", "i"} /\ t[4] = "/"

\* The same, the rest holding no carriage return and no line feed.
ForcedFormOneLine(t) == ForcedForm(t) /\ \A i \in 5..Len(t) : t[i] \notin {CR, LF}

\* The first event after the i-th that is the return of a nested run, 0 if
\* the trace holds none.
ReturnAfter(i) ==
    IF \E j \in (i + 1)..Len(trace) : trace[j].ev = "return" /\ trace[j].depth = 2
    THEN CHOOSE j \in (i + 1)..Len(trace) :
            /\ trace[j].ev = "return" /\ trace[j].depth = 2
            /\ \A m \in (i + 1)..(j - 1) : ~(trace[m].ev = "return" /\ trace[m].depth = 2)
    ELSE 0

\* What follows the i-th event, a forced-include token of the outer file, as
\* far as the run has got: the translation from offset 3, the quoted
\* rewritten token in the outer output, one nested run in precompiled-header
\* mode on the rewritten path, then the next token of the outer buffer.
ForcedSteps(i) ==
    LET t == trace[i].text
        w == Translate(From(t, 3))
        r == ReturnAfter(i)
    IN  /\ i + 1 <= Len(trace) =>
              /\ trace[i + 1].ev = "translate" /\ trace[i + 1].depth = 1
              /\ trace[i + 1].at = 3 /\ trace[i + 1].text = From(t, 3)
        /\ i + 2 <= Len(trace) =>
              /\ trace[i + 2].ev = "emit" /\ trace[i + 2].depth = 1
              /\ trace[i + 2].text = Quoted(Upto(t, 3) \o w) \o <<SPACE>>
        /\ i + 3 <= Len(trace) =>
              /\ trace[i + 3].ev = "call" /\ trace[i + 3].mode = PCH
              /\ trace[i + 3].text = w
        /\ \A m \in (i + 4)..Len(trace) : (r = 0 \/ m <= r) => trace[m].depth = 2
        /\ r # 0 /\ r < Len(trace) =>
              /\ trace[r + 1].ev \in {"token", "end"} /\ trace[r + 1].depth = 1
              /\ trace[r + 1].at = trace[i].ret

\* A nested run is started by nothing but a forced-include token in
\* command-file mode, three events back, and runs in precompiled-header mode.
OnlyForced ==
    /\ \A j \in 1..Len(trace) :
          trace[j].ev = "call" /\ trace[j].depth >= 1 =>
              /\ j >= 4 /\ trace[j - 3].ev = "token" /\ trace[j - 3].mode = CMD
              /\ ForcedForm(trace[j - 3].text)
    /\ \A d \in 2..Len(stack) : stack[d].mode = PCH /\ stack[d - 1].pc = "loop"

\* C5 as stated: in command-file mode every token of the form
\* [-/] F (I|i) / rest is translated from offset 3, then written quoted to the
\* outer output, then run through one nested remapFile in precompiled-header
\* mode, after which the outer run goes on with its next token; no other
\* token starts a nested run.
C5_ForcedIncludeAnyRest ==
    /\ \A i \in 1..Len(trace) :
          trace[i].ev = "token" /\ trace[i].mode = CMD /\ ForcedForm(trace[i].text)
          => ForcedSteps(i)
    /\ OnlyForced

\* C5 as amended: the same for the tokens of that form whose rest holds no
\* carriage return and no line feed.
C5_ForcedInclude ==
    /\ \A i \in 1..Len(trace) :
          trace[i].ev = "token" /\ trace[i].mode = CMD /\ ForcedFormOneLine(trace[i].text)
          => ForcedSteps(i)
    /\ OnlyForced

\* A forced-include token has been translated and written, its nested run
\* has returned, and the outer run has fetched its next token.
C5_Witness ==
    \E i \in 1..Len(trace) :
        /\ trace[i].ev = "token" /\ trace[i].mode = CMD /\ ForcedFormOneLine(trace[i].text)
        /\ ReturnAfter(i) # 0 /\ ReturnAfter(i) < Len(trace)
        /\ trace[ReturnAfter(i) + 1].ev = "token"
        /\ disk[HEADER_H] = INCLUDE \o <<SPACE>> \o Quoted(Translate(<<"a">>))

(***************************************************************************)
(* The whole program (Spec): cmaketricks started with up to MaxArgs        *)
(* arguments, in a directory holding two files and the header.             *)
(***************************************************************************)
MaxArgs == 3
FILE_G == <<"g">>
PROGRAM == <<"c", "m", "a", "k", "e", "t", "r", "i", "c", "k", "s">>
Args == { OPT_PCH, OPT_Q, FILE_F, FILE_G }
StartDisk ==
    (FILE_F :> <<"/", "F", "I", "/", "h", SPACE, "-", "I", "/", "a">>)
    @@ (FILE_G :> INCLUDE \o <<SPACE, "/", "a", "/", "b">>)
    @@ (HEADER_H :> INCLUDE)

Init ==
    \E as \in UNION { [1..n -> Args] : n \in 0..MaxArgs } :
        /\ status = "run"
        /\ mainpc = "start"
        /\ argv = <<PROGRAM>> \o as
        /\ argi = 0
        /\ mode = CMD
        /\ g_Quiet = FALSE
        /\ g_Debug = FALSE
        /\ disk = StartDisk
        /\ stack = <<>>
        /\ oob = 0
        /\ trace = <<>>
        /\ alt = NoAlt

Next ==
    \/ MainStart \/ MainLoop \/ MainReturn
    \/ Open \/ NextToken \/ NullToken \/ IncludeTarget \/ Remap \/ Emit \/ Nested \/ Flush

Spec == Init /\ [][Next]_vars

\* The files main has called remapFile on so far, and the arguments that are
\* files, both in order.
RECURSIVE FilesOf(_)
FilesOf(as) ==
    IF as = <<>> THEN <<>>
    ELSE (IF CharAt(as[1], 1) = "-" THEN <<>> ELSE <<as[1]>>) \o FilesOf(SubSeq(as, 2, Len(as)))

TopCalls == SelectSeq(trace, LAMBDA e : e.ev = "call" /\ e.depth = 0)

\* C9: if some argument has the text --pch, every argument not starting with
\* a dash is processed in precompiled-header mode, otherwise in command-file
\* mode; arguments starting with a dash are never processed as files, and the
\* files are processed in argument order.
C9_ModeFromCommandLine ==
    LET files == FilesOf(SubSeq(argv, 2, Len(argv)))
        pch == \E i \in 1..Len(argv) : argv[i] = OPT_PCH
    IN  /\ Len(TopCalls) <= Len(files)
        /\ \A n \in 1..Len(TopCalls) :
              /\ TopCalls[n].text = files[n]
              /\ TopCalls[n].mode = (IF pch THEN PCH ELSE CMD)
        /\ status = "exit0" /\ mainpc = "done" /\ argi > 0 => Len(TopCalls) = Len(files)

(***************************************************************************)
(* cmdfileremap.cpp: token() and remapFile, the run kept in `alt'.         *)
(***************************************************************************)
cmaketricks == <<status, mainpc, argv, argi, mode, g_Quiet, g_Debug, disk, stack, oob, trace>>

\* token() of cmdfileremap.cpp: no branch for CR and LF, which do not end a
\* bare token either.
tokenAlt(pBuffer, p, pToken, pTokenLen) ==
    LET q == SkipBlanks(pBuffer, p)
        c == CharAt(pBuffer, q)
        quoted == c = QUOTE
        start == IF quoted THEN q + 1 ELSE q
        end == IF quoted
               THEN ScanTo(pBuffer, start, {QUOTE})
               ELSE ScanTo(pBuffer, start, {SPACE, TAB})
        size == end - start
    IN  IF c = NUL
        THEN [ret |-> NULLPTR, tok |-> pToken, ok |-> TRUE]
        ELSE IF ~(size < pTokenLen - 1)
        THEN [ret |-> NULLPTR, tok |-> pToken, ok |-> FALSE]
        ELSE [ret |-> end + offset,
              tok |-> SubSeq(pBuffer, start, end - 1),
              ok |-> TRUE]

\* The run of remapFile( pFile ) on a file holding b, at its first statement.
\* file is what the file holds; toks records the tokens seen, each with the
\* pattern it was taken for and the offset of its path.
AltCall(b) ==
    [pc |-> "open", status |-> "run", file |-> b, buffer |-> <<>>, ptr |-> 1, tok |-> <<>>,
     out |-> <<>>, cls |-> "NONE", k |-> 0, toks |-> <<>>]

\* Lines 69-98.
AltOpen ==
    /\ alt.pc = "open" /\ alt.status = "run"
    /\ alt' = [alt EXCEPT !.buffer = alt.file, !.file = <<>>, !.pc = "loop"]
    /\ UNCHANGED cmaketricks

\* Lines 99-120 up to the call of remap(): the token() call of the loop and
\* the if-chain.  In the colon branch len is tok - strchr( tok, ':' ), a
\* negative number, and new char[len + 1] throws: the process is terminated.
AltToken ==
    /\ alt.pc = "loop" /\ alt.status = "run"
    /\ UNCHANGED cmaketricks
    /\ LET r == tokenAlt(alt.buffer, alt.ptr, alt.tok, TOKEN_SIZE)
           c == Classify(r.tok)
           a == [alt EXCEPT !.ptr = r.ret, !.tok = r.tok, !.cls = c.cls, !.k = c.k,
                            !.toks = Append(@, [text |-> r.tok, cls |-> c.cls, k |-> c.k])]
       IN  IF ~r.ok
           THEN alt' = [alt EXCEPT !.status = "abort"]
           ELSE IF r.ret = NULLPTR
           THEN alt' = [alt EXCEPT !.ptr = NULLPTR, !.pc = "flush"]
           ELSE IF c.cls = "TRI"
           THEN alt' = [a EXCEPT !.status = "abort"]
           ELSE IF c.cls = "NONE"
           THEN alt' = [a EXCEPT !.out = @ \o Quoted(r.tok) \o <<SPACE>>]
           ELSE alt' = [a EXCEPT !.pc = "remap"]

\* Lines 127-137 as called from lines 101, 104 and 116.
AltRemap ==
    /\ alt.pc = "remap" /\ alt.status = "run"
    /\ UNCHANGED cmaketricks
    /\ LET winPath == Translate(From(alt.tok, alt.k))
       IN  \E translated \in BOOLEAN :
              IF ~translated
              THEN alt' = [alt EXCEPT !.status = "exit4", !.file = alt.out]
              ELSE alt' = [alt EXCEPT !.tok = Remapped(alt.tok, alt.k, winPath, TOKEN_SIZE),
                                      !.pc = "emit"]

\* printf's %2s and %3s: the whole string, padded on the left to the width.
Padded(t, width) == [i \in 1..(IF Len(t) < width THEN width - Len(t) ELSE 0) |-> SPACE] \o t

\* Lines 102, 105 and 117: "\"%2s%s\" ", "\"%3s%s\" " and "\"%s\" ", each
\* given the rewritten token for every %s.
AltEmit ==
    /\ alt.pc = "emit" /\ alt.status = "run"
    /\ UNCHANGED cmaketricks
    /\ LET text == IF alt.cls = "JUS" THEN Quoted(alt.tok)
                   ELSE Quoted(Padded(alt.tok, alt.k) \o alt.tok)
       IN  alt' = [alt EXCEPT !.out = @ \o text \o <<SPACE>>, !.pc = "loop"]

\* Lines 122-125.
AltFlush ==
    /\ alt.pc = "flush" /\ alt.status = "run"
    /\ alt' = [alt EXCEPT !.file = alt.out, !.pc = "done"]
    /\ UNCHANGED cmaketricks

(***************************************************************************)
(* The two variants on the same file (SpecVariants)                        *)
(***************************************************************************)
MaxVariantPieces == 3
VariantPieces == { <<"-", "I", "/", "a">>, <<"/", "a", "/", "b">>, <<"a">>, <<SPACE>>, <<LF>> }

InitVariants ==
    \E b \in Texts(VariantPieces, MaxVariantPieces) :
        /\ status = "run"
        /\ mainpc = "none"
        /\ argv = <<>>
        /\ argi = 0
        /\ mode = CMD
        /\ g_Quiet = FALSE
        /\ g_Debug = FALSE
        /\ disk = (FILE_F :> b)
        /\ stack = <<Call(FILE_F, CMD)>>
        /\ oob = 0
        /\ trace = <<>>
        /\ alt = AltCall(b)

NextVariants ==
    \/ Open \/ NextToken \/ Remap \/ Emit \/ Flush
    \/ AltOpen \/ AltToken \/ AltRemap \/ AltEmit \/ AltFlush

SpecVariants == InitVariants /\ [][NextVariants]_vars

\* The tokens cmaketricks has seen, each with its pattern and path offset.
ClassifiedTokens ==
    LET ts == RunTokens(1)
    IN  [i \in 1..Len(ts) |->
            [text |-> ts[i], cls |-> Classify(ts[i]).cls, k |-> Classify(ts[i]).k]]

\* C8: on the same buffer and with the same translation, cmdfileremap's
\* remapFile sees the same tokens, takes each for the same pattern at the same
\* path offset, and writes the same bytes as cmaketricks' remapFile in
\* command-file mode.
C8_VariantsAgree ==
    /\ status = "run" /\ stack = <<>> /\ trace # <<>>
    /\ alt.status = "run" /\ alt.pc = "done"
    => /\ alt.toks = ClassifiedTokens
       /\ alt.file = disk[FILE_F]

(***************************************************************************)
(* Tokens about as long as the token buffer (SpecOverflow): one token per  *)
(* file, a prefix of each pattern followed by a run of `a'.                *)
(***************************************************************************)
MaxSlack == 5
LongPrefixes == { <<"-", "I", "/">>, <<"-", "F", "o", "/">>,
                  <<"-", "a", "b", "c", ":", "/">>, <<"/", "a", "/">>, <<"b">> }
Run(n) == [i \in 1..n |-> "a"]

InitOverflow ==
    \E pre \in LongPrefixes, len \in (TOKEN_SIZE - MaxSlack)..TOKEN_SIZE, m \in {CMD, PCH} :
        Called(FILE_F, m,
               FILE_F :> ((IF m = PCH THEN INCLUDE \o <<SPACE>> ELSE <<>>)
                          \o pre \o Run(len - Len(pre))))

NextOverflow == Open \/ NextToken \/ IncludeTarget \/ Remap \/ Emit \/ Flush

SpecOverflow == InitOverflow /\ [][NextOverflow]_vars

\* C10: the token buffer always holds a terminated text shorter than its
\* TOKEN_SIZE bytes and nothing is ever written outside it, whatever the
\* length of a translated path.
C10_TokenBufferBounded ==
    /\ oob = 0
    /\ \A f \in Frames : f.term /\ Len(f.tok) < TOKEN_SIZE

=============================================================================
